---- MODULE Spec2Model ----
(***************************************************************************)
(* FAISSVectorDB (backend/models/vector_db.py): the vector index of the    *)
(* student identification system, its metadata map and the operations on   *)
(* them.  Floats are fixed-point integers in units of 1/Scale.             *)
(***************************************************************************)
EXTENDS Integers, Sequences, FiniteSets, TLC

\* ---------------------------------------------------------------- bounds
MaxN == 3          \* most vectors the index holds in the model
MaxK == 2          \* largest k passed to a search
MaxAfterFault == 2 \* mutating calls followed after a batch failed half-way

\* ------------------------------------------------------- numeric modelling
Scale == 1000      \* fixed-point unit standing for the float 1.0
FltMax == 1000000000   \* stands for FLT_MAX, the score of an unfilled slot

embedding_dim == 2

RECURSIVE SqrtSearch(_, _, _)
SqrtSearch(n, lo, hi) ==
    IF lo >= hi THEN lo
    ELSE LET mid == (lo + hi + 1) \div 2
         IN  IF mid * mid <= n THEN SqrtSearch(n, mid, hi)
             ELSE SqrtSearch(n, lo, mid - 1)

\* floor of the square root (46340 is the largest root of a 32-bit integer)
Sqrt(n) == SqrtSearch(n, 0, IF n < 46340 THEN n ELSE 46340)

RECURSIVE SumSeq(_)
SumSeq(s) == IF s = <<>> THEN 0 ELSE Head(s) + SumSeq(Tail(s))

\* inner product of two fixed-point vectors of the same length
InnerProduct(a, b) == SumSeq([i \in 1..Len(a) |-> a[i] * b[i]]) \div Scale

\* squared L2 distance, what IndexFlatL2 reports
L2Sqr(a, b) ==
    SumSeq([i \in 1..Len(a) |-> (a[i] - b[i]) * (a[i] - b[i])]) \div Scale

\* (mutant) no normalisation
NormalizeNot(v) == v

\* faiss.normalize_L2 on one row: a zero row is left as it is
normalize_L2(v) ==
    LET nr == Sqrt(SumSeq([i \in 1..Len(v) |-> v[i] * v[i]]))
    IN  IF nr = 0 THEN v ELSE [i \in 1..Len(v) |-> (v[i] * Scale) \div nr]

\* ------------------------------------------------------- python values
None == [none |-> TRUE]
EmptyDict == <<>>

DigitChar == <<"0", "1", "2", "3", "4", "5", "6", "7", "8", "9">>

\* str(i) of a Python int: its decimal string, as a sequence of characters
RECURSIVE Str(_)
Str(i) ==
    IF i < 0 THEN <<"-">> \o Str(0 - i)
    ELSE IF i < 10 THEN <<DigitChar[i + 1]>>
    ELSE Str(i \div 10) \o <<DigitChar[(i % 10) + 1]>>

\* positions 0..n-1 as metadata keys
Keys(n) == {Str(i) : i \in 0..(n - 1)}

\* d[k] = v on a dict
DictSet(d, k, v) ==
    [x \in (DOMAIN d) \cup {k} |-> IF x = k THEN v ELSE d[x]]

\* an optional list argument: None, or the list of its items
List(items) == [items |-> items]

\* truth value of an optional list: None and [] are false
Truthy(l) == l # None /\ Len(l.items) > 0

\* x or {}
OrEmptyDict(x) == IF x = None \/ x = EmptyDict THEN EmptyDict ELSE x

\* ------------------------------------------------------- inputs
Embeddings == {<<300, 400>>, <<100, 100>>}
WrongDimEmbedding == <<100, 0, 0>>
ZeroEmbedding == <<0, 0>>
BobDict == [name |-> "Bob"]
Queries == Embeddings \cup {<<200, 0>>, ZeroEmbedding}
Thresholds == {0, 450, 990, 1000}

\* the calls of add_embedding: each student enrols with their own face; one
\* call passes a vector of the wrong width
AddCalls ==
    {[embedding |-> <<300, 400>>, student_id |-> "A", metadata |-> None],
     [embedding |-> <<100, 100>>, student_id |-> "B",
      metadata |-> [name |-> "Bob"]],
     [embedding |-> WrongDimEmbedding, student_id |-> "A", metadata |-> None]}

\* the calls of add_embedding of the enrolments that are searched for
\* themselves: the faces of two students, and a vector of zeros
SelfCalls ==
    {[embedding |-> <<300, 400>>, student_id |-> "A", metadata |-> None],
     [embedding |-> <<100, 100>>, student_id |-> "B", metadata |-> BobDict],
     [embedding |-> ZeroEmbedding, student_id |-> "Z", metadata |-> None]}

\* new_embedding arguments of update_embedding
UpdateEmbeddings == {<<300, 400>>, WrongDimEmbedding}

\* idx arguments: every position of the index, one below and one above
Positions == (0 - 1)..MaxN

\* the calls of add_embeddings_batch
BatchCalls ==
    {\* nothing to add
     [embeddings |-> <<>>, student_ids |-> <<>>, metadatas |-> None],
     \* one and two rows with their metadata
     [embeddings |-> << <<100, 100>> >>, student_ids |-> <<"B">>,
      metadatas |-> List(<<BobDict>>)],
     [embeddings |-> << <<100, 100>>, <<300, 400>> >>,
      student_ids |-> <<"B", "A">>, metadatas |-> List(<<BobDict, EmptyDict>>)],
     \* no metadatas, an empty list of them
     [embeddings |-> << <<300, 400>>, <<300, 400>> >>,
      student_ids |-> <<"A", "A">>, metadatas |-> None],
     [embeddings |-> << <<300, 400>> >>, student_ids |-> <<"A">>,
      metadatas |-> List(<<>>)],
     \* fewer metadatas than student ids
     [embeddings |-> << <<100, 100>>, <<300, 400>> >>,
      student_ids |-> <<"B", "A">>, metadatas |-> List(<<BobDict>>)],
     \* more and fewer rows than student ids
     [embeddings |-> << <<100, 100>>, <<300, 400>> >>,
      student_ids |-> <<"B">>, metadatas |-> List(<<BobDict>>)],
     [embeddings |-> << <<100, 100>> >>,
      student_ids |-> <<"B", "A">>, metadatas |-> None],
     \* rows of the wrong width
     [embeddings |-> <<WrongDimEmbedding>>, student_ids |-> <<"A">>,
      metadatas |-> None]}

VARIABLES
    metric,     \* self.metric
    index,      \* self.index: the stored rows, position p at index[p + 1];
                \* each row carries the (student_id, metadata) it was added for
    metadata,   \* self.metadata: str(position) -> record
    faulted,    \* 0 until an add_embeddings_batch call failed after it had
                \* added its rows; from then on 1 + the mutating calls since
    last,       \* the last call: its name, arguments and outcome
    calls,      \* the requests in flight: for each, the call it makes, the
                \* line it has reached and its local variables
    pipelines,  \* main.py: the globals preprocessing_pipeline and
                \* recognition_pipeline, and the pipelines created so far
    files,      \* the files at index_path and metadata_path: None while a
                \* file does not exist, what was written to it otherwise
    students    \* the students table: student_id -> the row's fields

vars ==
    <<metric, index, metadata, faulted, last, calls, pipelines, files, students>>

\* no request in flight; get_pipelines not yet called
NoCalls == <<>>
NoPipelines == [preprocessing_pipeline |-> None, recognition_pipeline |-> None,
                created |-> 0]
NoFiles == [index |-> None, metadata |-> None]
NoStudents == <<>>

ntotal == Len(index)

Returned(v) == [ok |-> TRUE, val |-> v]
Raised(e) == [ok |-> FALSE, err |-> e]

\* the bound on the calls explored once vectors and metadata are out of step:
\* a mutating call is taken while the budget lasts, and counted
Budget(fault) ==
    /\ faulted <= MaxAfterFault
    /\ faulted' = IF faulted > 0 THEN faulted + 1
                  ELSE IF fault THEN 1 ELSE 0

Init ==
    /\ metric \in {"cosine", "l2"}
    /\ index = <<>>
    /\ metadata = EmptyDict
    /\ faulted = 0
    /\ last = [op |-> "__init__", args |-> <<>>, ret |-> Returned(None)]
    /\ calls = NoCalls
    /\ pipelines = NoPipelines
    /\ files = NoFiles
    /\ students = NoStudents

\* (mutant) the wrapper without its assertion on the row width
FaissAddOkAnyWidth(rows) == TRUE

\* index.add(x) of the faiss wrapper: asserts the row width, then appends
\* the rows; owners are the records the rows are added for
FaissAddOk(rows) == \A i \in 1..Len(rows) : Len(rows[i]) = embedding_dim

FaissAdd(idx, rows, owners) ==
    idx \o [i \in 1..Len(rows) |-> [vec |-> rows[i], owner |-> owners[i]]]

\* the record add_embedding and add_embeddings_batch store
Record(student_id, md) == [student_id |-> student_id, metadata |-> md]

\* (mutant) add_embedding reading the position after index.add
AddEmbeddingResultLate(idx0, md0, embedding, student_id, md) ==
    LET row == IF metric = "cosine" THEN normalize_L2(embedding) ELSE embedding
        idx == Len(idx0) + 1
        rec == [student_id |-> student_id, metadata |-> OrEmptyDict(md)]
    IN  IF Len(row) # embedding_dim
        THEN [index |-> idx0, metadata |-> md0, ret |-> Raised("AssertionError")]
        ELSE [index |-> Append(idx0, [vec |-> row, owner |-> rec]),
              metadata |-> DictSet(md0, Str(idx), rec),
              ret |-> Returned(idx)]

\* add_embedding: the state after the call and what it returns
AddEmbeddingResult(idx0, md0, embedding, student_id, md) ==
    LET row == IF metric = "cosine" THEN normalize_L2(embedding) ELSE embedding
        idx == Len(idx0)
        rec == Record(student_id, OrEmptyDict(md))
    IN  IF ~FaissAddOk(<<row>>)
        THEN [index |-> idx0, metadata |-> md0, ret |-> Raised("AssertionError")]
        ELSE [index |-> FaissAdd(idx0, <<row>>, <<rec>>),
              metadata |-> DictSet(md0, Str(idx), rec),
              ret |-> Returned(idx)]

add_embedding ==
    \E call \in AddCalls :
        LET embedding == call.embedding
            student_id == call.student_id
            md == call.metadata
            r == AddEmbeddingResult(index, metadata, embedding, student_id, md)
        IN  /\ Len(r.index) <= MaxN
            /\ Budget(FALSE)
            /\ index' = r.index
            /\ metadata' = r.metadata
            /\ last' = [op |-> "add_embedding",
                        args |-> [embedding |-> embedding,
                                  student_id |-> student_id, metadata |-> md],
                        ret |-> r.ret]
            /\ UNCHANGED <<metric, calls, pipelines, files, students>>

\* (mutant) the loop with enumerate(student_ids, 1)
RECURSIVE BatchLoopFromOne(_, _, _, _, _, _)
BatchLoopFromOne(i, start_idx, md0, indices, student_ids, metadatas) ==
    IF i >= Len(student_ids)
    THEN [metadata |-> md0, ret |-> Returned(indices)]
    ELSE LET idx == start_idx + i + 1
             truthy == Truthy(metadatas)
         IN  IF truthy /\ i >= Len(metadatas.items)
             THEN [metadata |-> md0, ret |-> Raised("IndexError")]
             ELSE BatchLoopFromOne(i + 1, start_idx,
                                   DictSet(md0, Str(idx),
                                           [student_id |-> student_ids[i + 1],
                                            metadata |->
                                                IF truthy
                                                THEN metadatas.items[i + 1]
                                                ELSE EmptyDict]),
                                   Append(indices, idx), student_ids, metadatas)

\* the loop of add_embeddings_batch over enumerate(student_ids), from i on:
\* metadatas[i] raises IndexError when metadatas is non-empty and too short,
\* with the records before i already stored
RECURSIVE BatchLoop(_, _, _, _, _, _)
BatchLoop(i, start_idx, md0, indices, student_ids, metadatas) ==
    IF i >= Len(student_ids)
    THEN [metadata |-> md0, ret |-> Returned(indices)]
    ELSE LET idx == start_idx + i
             truthy == Truthy(metadatas)
         IN  IF truthy /\ i >= Len(metadatas.items)
             THEN [metadata |-> md0, ret |-> Raised("IndexError")]
             ELSE BatchLoop(i + 1, start_idx,
                            DictSet(md0, Str(idx),
                                    Record(student_ids[i + 1],
                                           IF truthy THEN metadatas.items[i + 1]
                                           ELSE EmptyDict)),
                            Append(indices, idx), student_ids, metadatas)

\* the record a row of a batch is added for
BatchOwner(i, student_ids, metadatas) ==
    Record(student_ids[i],
           IF ~Truthy(metadatas) THEN EmptyDict
           ELSE IF i <= Len(metadatas.items) THEN metadatas.items[i]
           ELSE EmptyDict)

\* add_embeddings_batch: the state after the call and what it returns
AddEmbeddingsBatchResult(idx0, md0, embeddings, student_ids, metadatas) ==
    IF Len(embeddings) # Len(student_ids)
    THEN [index |-> idx0, metadata |-> md0, ret |-> Raised("ValueError")]
    ELSE LET rows == IF metric = "cosine"
                     THEN [i \in 1..Len(embeddings) |-> normalize_L2(embeddings[i])]
                     ELSE embeddings
             start_idx == Len(idx0)
         IN  IF ~FaissAddOk(rows)
             THEN [index |-> idx0, metadata |-> md0,
                   ret |-> Raised("AssertionError")]
             ELSE LET owners == [i \in 1..Len(rows) |->
                                    BatchOwner(i, student_ids, metadatas)]
                      loop == BatchLoop(0, start_idx, md0, <<>>,
                                        student_ids, metadatas)
                  IN  [index |-> FaissAdd(idx0, rows, owners),
                       metadata |-> loop.metadata,
                       ret |-> loop.ret]

add_embeddings_batch ==
    \E call \in BatchCalls :
        LET student_ids == call.student_ids
            metadatas == call.metadatas
            r == AddEmbeddingsBatchResult(index, metadata, call.embeddings,
                                          student_ids, metadatas)
        IN  /\ Len(r.index) <= MaxN
            /\ Budget(Len(r.index) # Cardinality(DOMAIN r.metadata))
            /\ index' = r.index
            /\ metadata' = r.metadata
            /\ last' = [op |-> "add_embeddings_batch",
                        args |-> IF r.ret.ok
                                 THEN [student_ids |-> student_ids,
                                       metadatas |-> metadatas]
                                 ELSE <<>>,
                        ret |-> r.ret]
            /\ UNCHANGED <<metric, calls, pipelines, files, students>>

\* the loop of remove_embedding over range(ntotal), from i on
RECURSIVE RemoveLoop(_, _, _, _, _, _, _)
RemoveLoop(i, idx, idx0, md0, all_embeddings, new_metadata, new_idx) ==
    IF i >= Len(idx0)
    THEN [all_embeddings |-> all_embeddings, new_metadata |-> new_metadata]
    ELSE IF i # idx
    THEN LET emb == idx0[i + 1]
         IN  IF Str(i) \in DOMAIN md0
             THEN RemoveLoop(i + 1, idx, idx0, md0, Append(all_embeddings, emb),
                             DictSet(new_metadata, Str(new_idx), md0[Str(i)]),
                             new_idx + 1)
             ELSE RemoveLoop(i + 1, idx, idx0, md0, Append(all_embeddings, emb),
                             new_metadata, new_idx)
    ELSE RemoveLoop(i + 1, idx, idx0, md0, all_embeddings, new_metadata, new_idx)

\* remove_embedding: the index and the metadata after the call; both are
\* replaced only when some row is left
RemoveEmbeddingResult(idx0, md0, idx) ==
    LET loop == RemoveLoop(0, idx, idx0, md0, <<>>, EmptyDict, 0)
    IN  IF loop.all_embeddings # <<>>
        THEN [index |-> loop.all_embeddings, metadata |-> loop.new_metadata]
        ELSE [index |-> idx0, metadata |-> md0]

remove_embedding ==
    \E idx \in Positions :
        LET r == RemoveEmbeddingResult(index, metadata, idx)
        IN  /\ Budget(FALSE)
            /\ index' = r.index
            /\ metadata' = r.metadata
            /\ last' = [op |-> "remove_embedding", args |-> [idx |-> idx],
                        ret |-> Returned(None)]
            /\ UNCHANGED <<metric, calls, pipelines, files, students>>

\* update_embedding: remove_embedding, then add_embedding with the record
\* that was stored under str(idx), if there was one
UpdateEmbeddingResult(idx0, md0, idx, new_embedding) ==
    LET old_metadata == IF Str(idx) \in DOMAIN md0 THEN md0[Str(idx)]
                        ELSE EmptyDict
        removed == RemoveEmbeddingResult(idx0, md0, idx)
    IN  IF old_metadata # EmptyDict
        THEN LET added == AddEmbeddingResult(removed.index, removed.metadata,
                                             new_embedding,
                                             old_metadata.student_id,
                                             old_metadata.metadata)
             IN  [index |-> added.index, metadata |-> added.metadata,
                  ret |-> IF added.ret.ok THEN Returned(None) ELSE added.ret]
        ELSE [index |-> removed.index, metadata |-> removed.metadata,
              ret |-> Returned(None)]

update_embedding ==
    \E idx \in Positions, new_embedding \in UpdateEmbeddings :
        LET r == UpdateEmbeddingResult(index, metadata, idx, new_embedding)
        IN  /\ Len(r.index) <= MaxN
            /\ Budget(FALSE)
            /\ index' = r.index
            /\ metadata' = r.metadata
            /\ last' = [op |-> "update_embedding",
                        args |-> [idx |-> idx, new_embedding |-> new_embedding],
                        ret |-> r.ret]
            /\ UNCHANGED <<metric, calls, pipelines, files, students>>

\* what the flat index computes for a stored row: the inner product under
\* cosine (IndexFlatIP), the squared distance under l2 (IndexFlatL2)
FaissDistance(q, row) ==
    IF metric = "cosine" THEN InnerProduct(q, row) ELSE L2Sqr(q, row)

\* a ranks before b in the result of index.search
FaissBetter(a, b) == IF metric = "cosine" THEN a > b ELSE a < b

\* the score of an unfilled slot, whose position is -1
FaissPad == IF metric = "cosine" THEN 0 - FltMax ELSE FltMax

\* the orders index.search may report for the best m rows, given the score d
\* of every row: best first, no left-out row better than a reported one; the
\* order of rows of equal score is the library's choice
FaissRankings(d, m) ==
    {r \in [1..m -> 1..Len(d)] :
        /\ \A i, j \in 1..m : i < j => r[i] # r[j]
        /\ \A i, j \in 1..m : i < j => ~FaissBetter(d[r[j]], d[r[i]])
        /\ \A p \in 1..Len(d) :
              (\A i \in 1..m : r[i] # p) =>
                  \A i \in 1..m : ~FaissBetter(d[p], d[r[i]])}

\* index.search(q, k): k slots, the rows found and then the unfilled slots
FaissSearch(idx0, q, k) ==
    LET m == IF k < Len(idx0) THEN k ELSE Len(idx0)
        d == [p \in 1..Len(idx0) |-> FaissDistance(q, idx0[p].vec)]
    IN  {[distances |-> [i \in 1..k |-> IF i <= m THEN d[r[i]] ELSE FaissPad],
          indices |-> [i \in 1..k |-> IF i <= m THEN r[i] - 1 ELSE 0 - 1]] :
            r \in FaissRankings(d, m)}

\* search: the outcomes of the call, (distances[0], indices[0]) or the
\* assertion of the faiss wrapper on the width of the query
SearchResults(idx0, query_embedding, k) ==
    LET q == IF metric = "cosine" THEN normalize_L2(query_embedding)
             ELSE query_embedding
    IN  IF Len(q) # embedding_dim THEN {Raised("AssertionError")}
        ELSE {Returned(res) : res \in FaissSearch(idx0, q, k)}

search ==
    /\ last.op = "__init__"
    /\ \E query_embedding \in Queries \cup {WrongDimEmbedding}, k \in 1..MaxK :
        \E r \in SearchResults(index, query_embedding, k) :
            /\ last' = [op |-> "search",
                        args |-> [query_embedding |-> query_embedding, k |-> k],
                        ret |-> r]
            /\ UNCHANGED <<metric, index, metadata, faulted, calls, pipelines, files,
                           students>>

\* (mutant) the distance used as the similarity under both metrics
SimilarityRaw(dist) == dist

\* the similarity search_with_threshold derives from a distance
Similarity(dist) ==
    IF metric = "cosine" THEN dist ELSE (Scale * Scale) \div (Scale + dist)

\* (mutant) the test without the threshold
IsMatchAnyScore(similarity, threshold, idx, md0) == Str(idx) \in DOMAIN md0

\* the test a slot passes to become a match
IsMatch(similarity, threshold, idx, md0) ==
    similarity >= threshold /\ Str(idx) \in DOMAIN md0

\* (mutant) the match built from the stored record of the lowest key, not
\* from the record of the slot's position
MatchDataFirstRecord(similarity, idx, md0) ==
    LET first == CHOOSE n \in 0..9 :
                     /\ Str(n) \in DOMAIN md0
                     /\ \A j \in 0..9 : Str(j) \in DOMAIN md0 => n <= j
    IN  [student_id |-> md0[Str(first)].student_id,
         metadata |-> md0[Str(first)].metadata,
         similarity |-> similarity,
         faiss_index |-> idx]

\* the copy of the stored record with the two fields of a match set
MatchData(similarity, idx, md0) ==
    [student_id |-> md0[Str(idx)].student_id,
     metadata |-> md0[Str(idx)].metadata,
     similarity |-> similarity,
     faiss_index |-> idx]

\* the loop of search_with_threshold over zip(distances, indices), from slot i
RECURSIVE MatchLoop(_, _, _, _, _)
MatchLoop(i, res, threshold, md0, matches) ==
    IF i > Len(res.indices) THEN matches
    ELSE LET similarity == Similarity(res.distances[i])
             idx == res.indices[i]
         IN  MatchLoop(i + 1, res, threshold, md0,
                       IF IsMatch(similarity, threshold, idx, md0)
                       THEN Append(matches, MatchData(similarity, idx, md0))
                       ELSE matches)

\* search_with_threshold: the outcomes of the call, the list of matches or
\* the error of search
SearchWithThresholdResults(idx0, md0, query_embedding, threshold, k) ==
    {IF r.ok THEN Returned(MatchLoop(1, r.val, threshold, md0, <<>>)) ELSE r :
        r \in SearchResults(idx0, query_embedding, k)}

search_with_threshold ==
    /\ last.op = "__init__"
    /\ \E query_embedding \in Queries, threshold \in Thresholds, k \in 1..MaxK :
        \E r \in SearchWithThresholdResults(index, metadata, query_embedding,
                                            threshold, k) :
            /\ last' = [op |-> "search_with_threshold",
                        args |-> [query_embedding |-> query_embedding,
                                  threshold |-> threshold, k |-> k],
                        ret |-> r]
            /\ UNCHANGED <<metric, index, metadata, faulted, calls, pipelines, files,
                           students>>

\* what get_statistics reports of an index object with attributes
\* embedding_dim and metric, n vectors and the metadata md
Statistics(dim, m, n, md) ==
    [total_vectors |-> n, embedding_dim |-> dim, metric |-> m,
     metadata_entries |-> Cardinality(DOMAIN md)]

get_statistics ==
    /\ last' = [op |-> "get_statistics", args |-> <<>>,
                ret |-> Returned(Statistics(embedding_dim, metric, ntotal,
                                            metadata))]
    /\ UNCHANGED <<metric, index, metadata, faulted, calls, pipelines, files,
                   students>>

Next ==
    \/ add_embedding
    \/ add_embeddings_batch
    \/ remove_embedding
    \/ update_embedding
    \/ get_statistics

Spec == Init /\ [][Next]_vars

\* ------------------------------------------------------- searching
\* search and search_with_threshold read the index and change nothing: they
\* are checked on every index that at most MaxN mutating calls build, one
\* call on each

\* the (index, metadata) pairs one more mutating call makes of g
Gallery(r) == [index |-> r.index, metadata |-> r.metadata]

BuiltFrom(g) ==
    {Gallery(AddEmbeddingResult(g.index, g.metadata, c.embedding,
                                c.student_id, c.metadata)) : c \in AddCalls}
    \cup {Gallery(AddEmbeddingsBatchResult(g.index, g.metadata, c.embeddings,
                                           c.student_ids, c.metadatas)) :
              c \in BatchCalls}
    \cup {Gallery(RemoveEmbeddingResult(g.index, g.metadata, idx)) :
              idx \in Positions}
    \cup {Gallery(UpdateEmbeddingResult(g.index, g.metadata, idx, e)) :
              idx \in Positions, e \in UpdateEmbeddings}

RECURSIVE Built(_)
Built(n) ==
    IF n = 0 THEN {[index |-> <<>>, metadata |-> EmptyDict]}
    ELSE LET before == Built(n - 1)
         IN  before \cup {g \in UNION {BuiltFrom(b) : b \in before} :
                              Len(g.index) <= MaxN}

InitSearch ==
    /\ metric \in {"cosine", "l2"}
    /\ \E g \in Built(MaxN) :
          /\ index = g.index
          /\ metadata = g.metadata
          /\ faulted = IF Len(g.index) = Cardinality(DOMAIN g.metadata)
                       THEN 0 ELSE 1
    /\ last = [op |-> "__init__", args |-> <<>>, ret |-> Returned(None)]
    /\ calls = NoCalls
    /\ pipelines = NoPipelines
    /\ files = NoFiles
    /\ students = NoStudents

NextSearch ==
    \/ search
    \/ search_with_threshold

SpecSearch == InitSearch /\ [][NextSearch]_vars

\* the indexes that add_embedding calls alone build, n at most
RECURSIVE Enrolled(_)
Enrolled(n) ==
    IF n = 0 THEN {[index |-> <<>>, metadata |-> EmptyDict]}
    ELSE LET before == Enrolled(n - 1)
         IN  before \cup
             {Gallery(AddEmbeddingResult(g.index, g.metadata, c.embedding,
                                         c.student_id, c.metadata)) :
                  g \in before, c \in SelfCalls}

InitEnrolled ==
    /\ metric \in {"cosine", "l2"}
    /\ \E g \in Enrolled(MaxN) : index = g.index /\ metadata = g.metadata
    /\ faulted = 0
    /\ last = [op |-> "__init__", args |-> <<>>, ret |-> Returned(None)]
    /\ calls = NoCalls
    /\ pipelines = NoPipelines
    /\ files = NoFiles
    /\ students = NoStudents

SpecEnrolled == InitEnrolled /\ [][NextSearch]_vars

\* ------------------------------------------------------- requests in flight
\* main.py serves requests on one event loop and a pool of worker threads.
\* register_student and identify_student are coroutines (async def) whose
\* bodies hold no await: the event loop runs one of them to its end before it
\* starts the next.  get_system_stats is a plain function, which the server
\* runs on a worker thread, at any time.  The index has no lock of its own.
RegisterRequests == {"register1", "register2"}
IdentifyRequests == {"identify"}
StatsRequests == {"stats"}
LoopRequests == RegisterRequests \cup IdentifyRequests
Requests == LoopRequests \cup StatsRequests

\* what register_student passes to add_embedding
RegisterCall(t) ==
    IF t = "register1"
    THEN [embedding |-> <<600, 800>>, student_id |-> "A",
          metadata |-> [name |-> "Ann"]]
    ELSE [embedding |-> <<709, 709>>, student_id |-> "B", metadata |-> BobDict]

\* settings.similarity_threshold, which the recognition pipeline is built with
similarity_threshold == 350

Idle == [pc |-> "idle"]
Over(c) == c.pc \in {"idle", "done"}
Running(c) == c.pc \notin {"idle", "done", "queued"}

\* (mutant) the coroutines run as threads do
EventLoopAny == TRUE

\* the event loop runs no coroutine
EventLoopFree == \A t \in LoopRequests : ~Running(calls[t])

InitRequests ==
    /\ metric = "cosine"
    /\ index = <<>>
    /\ metadata = EmptyDict
    /\ faulted = 0
    /\ last = [op |-> "__init__", args |-> <<>>, ret |-> Returned(None)]
    /\ calls = [t \in Requests |-> Idle]
    /\ pipelines = NoPipelines
    /\ files = NoFiles
    /\ students = NoStudents

\* a request for a coroutine arrives and waits for the event loop; behind
\* are the registrations that arrived before it and are not over
Arrive ==
    \E t \in LoopRequests :
        /\ Over(calls[t])
        /\ t \in RegisterRequests =>
               ntotal + Cardinality({u \in RegisterRequests :
                                        ~Over(calls[u])}) < MaxN
        /\ calls' = [calls EXCEPT ![t] =
                        [pc |-> "queued",
                         behind |-> {u \in RegisterRequests : ~Over(calls[u])}]]
        /\ UNCHANGED <<metric, index, metadata, faulted, last, pipelines, files,
                       students>>

\* add_embedding, called by register_student: idx = self.index.ntotal
AddEmbedding_ReadNtotal ==
    \E t \in RegisterRequests :
        /\ calls[t].pc = "queued"
        /\ EventLoopFree
        /\ calls' = [calls EXCEPT ![t] =
                        [pc |-> "index.add", op |-> "add_embedding",
                         behind |-> calls[t].behind,
                         args |-> RegisterCall(t),
                         embedding |-> normalize_L2(RegisterCall(t).embedding),
                         idx |-> ntotal]]
        /\ UNCHANGED <<metric, index, metadata, faulted, last, pipelines, files,
                       students>>

\* add_embedding: self.index.add(embedding)
AddEmbedding_IndexAdd ==
    \E t \in RegisterRequests :
        LET c == calls[t]
        IN  /\ c.pc = "index.add"
            /\ FaissAddOk(<<c.embedding>>)
            /\ index' = FaissAdd(index, <<c.embedding>>,
                                  <<Record(c.args.student_id,
                                           OrEmptyDict(c.args.metadata))>>)
            /\ calls' = [calls EXCEPT ![t].pc = "metadata"]
            /\ UNCHANGED <<metric, metadata, faulted, last, pipelines, files, students>>

\* add_embedding: self.metadata[str(idx)] = ..., return idx
AddEmbedding_StoreMetadata ==
    \E t \in RegisterRequests :
        LET c == calls[t]
        IN  /\ c.pc = "metadata"
            /\ metadata' = DictSet(metadata, Str(c.idx),
                                    Record(c.args.student_id,
                                           OrEmptyDict(c.args.metadata)))
            /\ calls' = [calls EXCEPT ![t] =
                            [pc |-> "done", op |-> "add_embedding",
                             behind |-> c.behind, args |-> c.args,
                             ret |-> Returned(c.idx)]]
            /\ UNCHANGED <<metric, index, faulted, last, pipelines, files, students>>

\* search_with_threshold, called by identify_student: self.search(...); seen
\* is the index and the metadata as they are at this line
SearchWithThreshold_Search ==
    \E t \in IdentifyRequests, query_embedding \in Embeddings, k \in 1..MaxK :
        /\ calls[t].pc = "queued"
        /\ EventLoopFree
        /\ \E r \in SearchResults(index, query_embedding, k) :
              /\ r.ok
              /\ calls' = [calls EXCEPT ![t] =
                              [pc |-> "matches", op |-> "search_with_threshold",
                               res |-> r.val,
                               seen |-> [index |-> index,
                                         metadata |-> metadata]]]
        /\ UNCHANGED <<metric, index, metadata, faulted, last, pipelines, files,
                       students>>

\* search_with_threshold: the loop over the slots, which reads self.metadata;
\* snapshot tells whether both lines read one index with as many vectors as
\* records
SearchWithThreshold_Matches ==
    \E t \in IdentifyRequests :
        LET c == calls[t]
        IN  /\ c.pc = "matches"
            /\ calls' = [calls EXCEPT ![t] =
                            [pc |-> "done", op |-> "search_with_threshold",
                             snapshot |->
                                 /\ c.seen = [index |-> index,
                                              metadata |-> metadata]
                                 /\ Len(index) = Cardinality(DOMAIN metadata),
                             ret |-> Returned(MatchLoop(1, c.res,
                                                        similarity_threshold,
                                                        metadata, <<>>))]]
            /\ UNCHANGED <<metric, index, metadata, faulted, last, pipelines, files,
                           students>>

\* get_statistics, called by get_system_stats: self.index.ntotal
GetStatistics_ReadNtotal ==
    \E t \in StatsRequests :
        /\ Over(calls[t])
        /\ calls' = [calls EXCEPT ![t] =
                        [pc |-> "len(metadata)", op |-> "get_statistics",
                         total_vectors |-> ntotal]]
        /\ UNCHANGED <<metric, index, metadata, faulted, last, pipelines, files,
                       students>>

\* get_statistics: len(self.metadata), return
GetStatistics_ReadMetadata ==
    \E t \in StatsRequests :
        LET c == calls[t]
        IN  /\ c.pc = "len(metadata)"
            /\ calls' = [calls EXCEPT ![t] =
                            [pc |-> "done", op |-> "get_statistics",
                             ret |-> Returned(
                                 [total_vectors |-> c.total_vectors,
                                  embedding_dim |-> embedding_dim,
                                  metric |-> metric,
                                  metadata_entries |->
                                      Cardinality(DOMAIN metadata)])]]
            /\ UNCHANGED <<metric, index, metadata, faulted, last, pipelines, files,
                           students>>

NextRequests ==
    \/ Arrive
    \/ AddEmbedding_ReadNtotal
    \/ AddEmbedding_IndexAdd
    \/ AddEmbedding_StoreMetadata
    \/ SearchWithThreshold_Search
    \/ SearchWithThreshold_Matches
    \/ GetStatistics_ReadNtotal
    \/ GetStatistics_ReadMetadata

SpecRequests == InitRequests /\ [][NextRequests]_vars

\* ------------------------------------------------------- recognition
\* RecognitionPipeline.identify_student and verify_student, on an index that
\* add_embedding calls built.  What the preprocessing pipeline makes of the
\* image is an input: no embedding, or an embedding.
Some(v) == [value |-> v]
ExtractOutcomes ==
    {None} \cup {Some(q) : q \in Queries \cup {WrongDimEmbedding}}

\* (mutant) the last match as the best one
BestMatchLast(matches) ==
    IF matches # <<>> THEN matches[Len(matches)] ELSE None

\* matches[0] if matches else None
BestMatch(matches) == IF matches # <<>> THEN matches[1] ELSE None

\* identify_student: the outcomes of the call with the embedding the
\* preprocessing pipeline extracted
IdentifyResults(idx0, md0, extracted, top_k) ==
    IF extracted = None
    THEN {Returned([success |-> FALSE, error |-> "No face detected"])}
    ELSE {IF r.ok
          THEN Returned([success |-> Len(r.val) > 0,
                         matches |-> r.val,
                         best_match |-> BestMatch(r.val)])
          ELSE r :
             r \in SearchWithThresholdResults(idx0, md0, extracted.value,
                                              similarity_threshold, top_k)}

IdentifyStudentCall ==
    /\ \E extracted \in ExtractOutcomes, top_k \in 1..MaxK :
        \E r \in IdentifyResults(index, metadata, extracted, top_k) :
            /\ last' = [op |-> "identify_student",
                        args |-> [embedding |-> extracted, top_k |-> top_k],
                        ret |-> r]
            /\ UNCHANGED <<metric, index, metadata, faulted, calls, pipelines,
                           files, students>>

identify_student ==
    /\ last.op = "__init__"
    /\ IdentifyStudentCall

\* (mutant) verified whenever identification succeeded
VerifiedAnyMatch(result, student_id) == result.success

\* verify_student: whether the result of the identification verifies
\* student_id
Verified(result, student_id) ==
    result.success /\ result.best_match.student_id = student_id

\* verify_student: the outcomes of the call
VerifyResults(idx0, md0, extracted, student_id) ==
    {IF ~r.ok THEN r
     ELSE IF ~r.val.success
     THEN Returned([verified |-> FALSE,
                    reason |-> "No face detected or no match found"])
     ELSE Returned([verified |-> Verified(r.val, student_id),
                    matched_student_id |-> r.val.best_match.student_id,
                    similarity |-> r.val.best_match.similarity,
                    threshold |-> similarity_threshold]) :
        r \in IdentifyResults(idx0, md0, extracted, 1)}

verify_student ==
    /\ last.op = "__init__"
    /\ \E extracted \in ExtractOutcomes, student_id \in {"A", "B", "C"} :
        \E r \in VerifyResults(index, metadata, extracted, student_id) :
            /\ last' = [op |-> "verify_student",
                        args |-> [embedding |-> extracted,
                                  student_id |-> student_id],
                        ret |-> r]
            /\ UNCHANGED <<metric, index, metadata, faulted, calls, pipelines,
                           files, students>>

NextRecognition ==
    \/ identify_student
    \/ verify_student

SpecRecognition == InitEnrolled /\ [][NextRecognition]_vars

\* ------------------------------------------------------- get_pipelines
\* get_pipelines is called by the coroutines on the event loop (one at a
\* time) and by get_system_stats on worker threads; it takes no lock, and a
\* thread may be switched between any two of its lines.
Callers == {"loop", "worker1", "worker2"}

\* what the n-th run of create_pipeline returns: n stands for both objects
Pipelines(n) == [created |-> n]

InitPipelines ==
    /\ metric = "cosine"
    /\ index = <<>>
    /\ metadata = EmptyDict
    /\ faulted = 0
    /\ last = [op |-> "__init__", args |-> <<>>, ret |-> Returned(None)]
    /\ calls = [t \in Callers |-> Idle]
    /\ pipelines = NoPipelines
    /\ files = NoFiles
    /\ students = NoStudents

\* the line a call of get_pipelines moves to, with its local values
Goto(t, c) ==
    /\ calls' = [calls EXCEPT ![t] = c]
    /\ UNCHANGED <<metric, index, metadata, faulted, last, files, students>>

\* if preprocessing_pipeline is None ...
GetPipelines_TestPreprocessing ==
    \E t \in Callers :
        /\ Over(calls[t])
        /\ Goto(t, [pc |-> IF pipelines.preprocessing_pipeline = None
                           THEN "create" ELSE "test_recognition"])
        /\ UNCHANGED <<pipelines, files, students>>

\* ... or recognition_pipeline is None
GetPipelines_TestRecognition ==
    \E t \in Callers :
        /\ calls[t].pc = "test_recognition"
        /\ Goto(t, [pc |-> IF pipelines.recognition_pipeline = None
                           THEN "create" ELSE "load_preprocessing"])
        /\ UNCHANGED <<pipelines, files, students>>

\* create_pipeline(device=settings.device): a new pair of pipelines
GetPipelines_Create ==
    \E t \in Callers :
        /\ calls[t].pc = "create"
        /\ pipelines' = [pipelines EXCEPT !.created = @ + 1]
        /\ Goto(t, [pc |-> "store_preprocessing",
                     pair |-> Pipelines(pipelines.created + 1)])

\* preprocessing_pipeline, ... = the first of the pair
GetPipelines_StorePreprocessing ==
    \E t \in Callers :
        /\ calls[t].pc = "store_preprocessing"
        /\ pipelines' = [pipelines EXCEPT
                             !.preprocessing_pipeline = calls[t].pair]
        /\ Goto(t, [pc |-> "store_recognition", pair |-> calls[t].pair])

\* ..., recognition_pipeline = the second of the pair
GetPipelines_StoreRecognition ==
    \E t \in Callers :
        /\ calls[t].pc = "store_recognition"
        /\ pipelines' = [pipelines EXCEPT
                             !.recognition_pipeline = calls[t].pair]
        /\ Goto(t, [pc |-> "load_preprocessing"])

\* return preprocessing_pipeline, ...
GetPipelines_LoadPreprocessing ==
    \E t \in Callers :
        /\ calls[t].pc = "load_preprocessing"
        /\ Goto(t, [pc |-> "load_recognition",
                     preprocessing |-> pipelines.preprocessing_pipeline])
        /\ UNCHANGED <<pipelines, files, students>>

\* return ..., recognition_pipeline
GetPipelines_LoadRecognition ==
    \E t \in Callers :
        /\ calls[t].pc = "load_recognition"
        /\ Goto(t, [pc |-> "done", op |-> "get_pipelines",
                     ret |-> Returned(<<calls[t].preprocessing,
                                        pipelines.recognition_pipeline>>)])
        /\ UNCHANGED <<pipelines, files, students>>

NextPipelines ==
    \/ GetPipelines_TestPreprocessing
    \/ GetPipelines_TestRecognition
    \/ GetPipelines_Create
    \/ GetPipelines_StorePreprocessing
    \/ GetPipelines_StoreRecognition
    \/ GetPipelines_LoadPreprocessing
    \/ GetPipelines_LoadRecognition

SpecPipelines == InitPipelines /\ [][NextPipelines]_vars

\* ------------------------------------------------------- save and load
\* save writes the index file and then the metadata file; __init__ with the
\* two paths loads whichever of the files exist.  The files are read by the
\* server when it starts and by the scripts, which are other processes.
DefaultEmbeddingDim == 128

\* the class of index __init__ creates for a metric
IndexClass(m) == IF m = "cosine" THEN "IndexFlatIP" ELSE "IndexFlatL2"

\* faiss.write_index: the file holds the class of the index, its width and
\* its rows; faiss.read_index makes the index object of a file
WriteIndex(class, d, idx) ==
    [class |-> class, d |-> d, xb |-> [i \in 1..Len(idx) |-> idx[i].vec]]

ReadIndex(file) == [class |-> file.class, d |-> file.d, xb |-> file.xb]

\* json.dump of the metadata: an object of objects, the student_id a string,
\* the metadata an object of strings
JsonDump(md) ==
    [object |->
        [key \in DOMAIN md |->
            [object |->
                [student_id |-> [string |-> md[key].student_id],
                 metadata |->
                     [object |-> [a \in DOMAIN md[key].metadata |->
                                     [string |-> md[key].metadata[a]]]]]]]]

\* json.load of such a document
JsonLoad(doc) ==
    [key \in DOMAIN doc.object |->
        LET rec == doc.object[key].object
        IN  [student_id |-> rec.student_id.string,
             metadata |-> [a \in DOMAIN rec.metadata.object |->
                              rec.metadata.object[a].string]]]

\* the files a complete save writes of an index
SavedFiles(m, g) ==
    [index |-> WriteIndex(IndexClass(m), embedding_dim, g.index),
     metadata |-> JsonDump(g.metadata)]

\* g0 was g some add_embedding calls ago
Earlier(g0, g) ==
    /\ Len(g0.index) <= Len(g.index)
    /\ g0.index = SubSeq(g.index, 1, Len(g0.index))
    /\ g0.metadata = [key \in Keys(Len(g0.index)) |-> g.metadata[key]]

\* an index that add_embedding calls built, with no files yet or with the
\* files of a save made some calls ago
InitPersist ==
    /\ metric \in {"cosine", "l2"}
    /\ \E g \in Enrolled(MaxN) :
          /\ index = g.index
          /\ metadata = g.metadata
          /\ \/ files = NoFiles
             \/ \E g0 \in Enrolled(MaxN) :
                    Earlier(g0, g) /\ files = SavedFiles(metric, g0)
    /\ faulted = 0
    /\ last = [op |-> "__init__", args |-> <<>>, ret |-> Returned(None)]
    /\ calls = [t \in {"save"} |-> Idle]
    /\ pipelines = NoPipelines
    /\ students = NoStudents

\* save: faiss.write_index(self.index, index_path)
Save_WriteIndex ==
    /\ Over(calls["save"])
    /\ files' = [files EXCEPT
                    !.index = WriteIndex(IndexClass(metric), embedding_dim, index)]
    /\ calls' = [calls EXCEPT !["save"] = [pc |-> "metadata_file"]]
    /\ UNCHANGED <<metric, index, metadata, faulted, last, pipelines, students>>

\* save: json.dump(self.metadata, f)
Save_WriteMetadata ==
    /\ calls["save"].pc = "metadata_file"
    /\ files' = [files EXCEPT !.metadata = JsonDump(metadata)]
    /\ calls' = [calls EXCEPT !["save"] = [pc |-> "done"]]
    /\ UNCHANGED <<metric, index, metadata, faulted, last, pipelines, students>>

\* FAISSVectorDB(embedding_dim, index_path, metadata_path, metric): the
\* object made of the files as they are
LoadResult(dim, m) ==
    [embedding_dim |-> dim,
     metric |-> m,
     index |-> IF files.index # None THEN ReadIndex(files.index)
               ELSE [class |-> IndexClass(m), d |-> dim, xb |-> <<>>],
     metadata |-> IF files.metadata # None THEN JsonLoad(files.metadata)
                  ELSE EmptyDict]

Load ==
    \E dim \in {embedding_dim, DefaultEmbeddingDim}, m \in {"cosine", "l2"} :
        /\ last' = [op |-> "__init__",
                    args |-> [embedding_dim |-> dim, metric |-> m],
                    ret |-> Returned(LoadResult(dim, m))]
        /\ UNCHANGED <<metric, index, metadata, faulted, calls, pipelines,
                       files, students>>

NextPersist ==
    \/ Save_WriteIndex
    \/ Save_WriteMetadata
    \/ Load

SpecPersist == InitPersist /\ [][NextPersist]_vars

\* ------------------------------------------------------- face detection
\* An image is the shape of its array; what MTCNN finds in it is an input.
\* A detection is the dict detect_faces returns, without the keypoints, which
\* nothing reads.
MIN_FACE_DIM == 50
output_size == <<112, 112>>

Shape(h, w) == [h |-> h, w |-> w]
Size(image) == image.h * image.w
Max(a, b) == IF a > b THEN a ELSE b
Min(a, b) == IF a < b THEN a ELSE b

\* the length of a[start:stop] on an axis of length n
SliceLen(start, stop, n) ==
    LET clip(i) == IF i < 0 THEN Max(i + n, 0) ELSE Min(i, n)
    IN  Max(clip(stop) - clip(start), 0)

\* (mutant) no resizing
ResizeNot(image, dsize) == image

\* cv2.resize(image, (width, height))
Resize(image, dsize) == Shape(dsize[2], dsize[1])

Images == {Shape(60, 60), Shape(200, 300)}
Boxes ==
    {<<0, 0, 60, 60>>, <<10, 20, 30, 40>>, <<10, 20, 49, 80>>,
     <<10, 20, 80, 49>>, <<10, 20, 50, 50>>, <<40, 40, 100, 120>>,
     <<300, 20, 60, 60>>}
Confidences == {500, 990}
Detections ==
    {None} \cup {[box |-> b, confidence |-> c] : b \in Boxes, c \in Confidences}

\* if width < MIN_FACE_DIM or height < MIN_FACE_DIM
TooSmall(width, height) == width < MIN_FACE_DIM \/ height < MIN_FACE_DIM

\* align_face: the crop of the box with its margin
FaceCrop(image, face_info) ==
    LET box == face_info.box
        margin == (box[3] * 2) \div 10
        x == Max(0, box[1] - margin)
        y == Max(0, box[2] - margin)
        width == Min(image.w - x, box[3] + 2 * margin)
        height == Min(image.h - y, box[4] + 2 * margin)
    IN  Shape(SliceLen(y, y + height, image.h), SliceLen(x, x + width, image.w))

align_face(image, face_info) ==
    IF TooSmall(face_info.box[3], face_info.box[4]) THEN None
    ELSE IF Size(FaceCrop(image, face_info)) = 0 THEN None
    ELSE Resize(FaceCrop(image, face_info), output_size)

\* detect_and_align: (aligned_face, face_info), given what detect_faces
\* returns
detect_and_align(image, detection) ==
    IF detection = None
    THEN [aligned_face |-> None, face_info |-> None]
    ELSE [aligned_face |-> align_face(image, detection),
          face_info |-> detection]

\* ------------------------------------------------------- the endpoints
\* register_student and identify_student of main.py.  What the steps they
\* call do with a request is an input: a step returns or raises.
Raises == [raises |-> TRUE]

\* The photos of a request to register a student.  A photo is what
\* cv2.imdecode and cv2.imread make of its bytes (the shape of the image, or
\* None), what the detector finds in the image and what the AdaFace model
\* extracts from the aligned face.
MIN_IMAGE_SIZE == 300
MAX_IMAGE_SIZE == 4000
MaxPhotos == 2

GoodDetection == [box |-> <<40, 40, 100, 120>>, confidence |-> 990]
SmallDetection == [box |-> <<10, 20, 30, 40>>, confidence |-> 990]

GoodPhoto(e) ==
    [image |-> Shape(400, 400), detection |-> GoodDetection, embedding |-> e]

RegisterPhotos ==
    {[image |-> None, detection |-> None, embedding |-> None],
     [image |-> Shape(400, 400), detection |-> None, embedding |-> None],
     [image |-> Shape(400, 400), detection |-> SmallDetection,
      embedding |-> None],
     [image |-> Shape(200, 300), detection |-> GoodDetection,
      embedding |-> Some(<<300, 400>>)],
     GoodPhoto(Some(<<300, 400>>)),
     GoodPhoto(Some(<<100, 100>>)),
     GoodPhoto(Some(WrongDimEmbedding)),
     GoodPhoto(Raises)}

PhotoLists ==
    UNION {[1..n -> RegisterPhotos] : n \in 0..MaxPhotos}

\* the requests to register a student: the photos, and whether
\* StudentDB.create_student and vector_db.save return or raise.  The roll
\* number is the student's: it is registered when the student is.
RegisterInputs ==
    {[student_id |-> id, photos |-> photos, create_student |-> w[1],
      save |-> w[2]] :
        id \in {"A", "B"}, photos \in PhotoLists,
        w \in {<<"ok", "ok">>, <<"raises", "ok">>, <<"ok", "raises">>}}

\* PhotoValidator.validate_photo: (is_valid, message).  FaceDetector's
\* detect_faces returns one dict, and max(faces, key=...) at line 75 goes
\* through its keys, which are strings: f['box'] raises TypeError.  The
\* checks after that line are never reached.
validate_photo(photo) ==
    IF photo.image = None
    THEN Returned([is_valid |-> FALSE, message |-> "Could not load image"])
    ELSE IF photo.image.w < MIN_IMAGE_SIZE \/ photo.image.h < MIN_IMAGE_SIZE
    THEN Returned([is_valid |-> FALSE, message |-> "Image too small"])
    ELSE IF photo.image.w > MAX_IMAGE_SIZE \/ photo.image.h > MAX_IMAGE_SIZE
    THEN Returned([is_valid |-> FALSE, message |-> "Image too large"])
    ELSE IF photo.detection = None
    THEN Returned([is_valid |-> FALSE, message |-> "No face detected"])
    ELSE Raised("TypeError")

\* PreprocessingPipeline.extract_embedding on a decoded photo: None without
\* an aligned face, else what the recognizer does
ExtractEmbedding(photo) ==
    IF detect_and_align(photo.image, photo.detection).aligned_face = None
    THEN Returned(None)
    ELSE IF photo.embedding = Raises THEN Raised("Exception")
    ELSE Returned(photo.embedding)

\* the loop of register_student over the photos, from photo i: the
\* embeddings collected (the copies of the photos it saves are left out)
RECURSIVE PhotoLoop(_, _, _)
PhotoLoop(i, photos, embeddings) ==
    IF i > Len(photos) THEN Returned(embeddings)
    ELSE IF photos[i].image = None THEN PhotoLoop(i + 1, photos, embeddings)
    ELSE LET r == ExtractEmbedding(photos[i])
         IN  IF ~r.ok THEN r
             ELSE IF r.val = None THEN PhotoLoop(i + 1, photos, embeddings)
             ELSE PhotoLoop(i + 1, photos, Append(embeddings, r.val.value))

\* np.mean(embeddings, axis=0) if len(embeddings) > 1 else embeddings[0]
MeanEmbedding(embeddings) ==
    IF Len(embeddings) = 1 THEN Returned(embeddings[1])
    ELSE IF \E i \in 1..Len(embeddings) :
                Len(embeddings[i]) # Len(embeddings[1])
    THEN Raised("ValueError")
    ELSE Returned([d \in 1..Len(embeddings[1]) |->
                      SumSeq([i \in 1..Len(embeddings) |-> embeddings[i][d]])
                          \div Len(embeddings)])

\* the row create_student stores
StudentRow(faiss_index) == [is_active |-> TRUE, faiss_index |-> faiss_index]

\* register_student from the call of add_embedding on: the index is changed
\* before the database and the files are written
RegisterAdd(idx0, md0, fl0, st0, req, mean) ==
    LET final_embedding == normalize_L2(mean)
        added == AddEmbeddingResult(idx0, md0, final_embedding, req.student_id,
                                    [name |-> req.student_id])
        g == [index |-> added.index, metadata |-> added.metadata]
    IN  IF ~added.ret.ok
        THEN [index |-> idx0, metadata |-> md0, files |-> fl0,
              students |-> st0, ret |-> added.ret]
        ELSE IF req.create_student = "raises"
        THEN [index |-> g.index, metadata |-> g.metadata, files |-> fl0,
              students |-> st0, ret |-> Raised("SQLAlchemyError")]
        ELSE IF req.save = "raises"
        THEN [index |-> g.index, metadata |-> g.metadata, files |-> fl0,
              students |-> DictSet(st0, req.student_id,
                                   StudentRow(added.ret.val)),
              ret |-> Raised("OSError")]
        ELSE [index |-> g.index, metadata |-> g.metadata,
              files |-> SavedFiles(metric, g),
              students |-> DictSet(st0, req.student_id,
                                   StudentRow(added.ret.val)),
              ret |-> Returned([success |-> TRUE,
                                faiss_index |-> added.ret.val])]

\* register_student: the state after the request and its outcome
RegisterResult(idx0, md0, fl0, st0, req) ==
    LET same(ret) == [index |-> idx0, metadata |-> md0, files |-> fl0,
                      students |-> st0, ret |-> ret]
        valid == validate_photo(req.photos[1])
        collected == PhotoLoop(1, req.photos, <<>>)
        mean == MeanEmbedding(collected.val)
    IN  IF req.student_id \in DOMAIN st0 THEN same(Raised("HTTPException"))
        ELSE IF req.photos = <<>> THEN same(Raised("HTTPException"))
        ELSE IF ~valid.ok THEN same(valid)
        ELSE IF ~valid.val.is_valid THEN same(Raised("HTTPException"))
        ELSE IF ~collected.ok THEN same(collected)
        ELSE IF collected.val = <<>>
        THEN same(Returned([success |-> FALSE,
                            message |-> "No face detected in any of the photos"]))
        ELSE IF ~mean.ok THEN same(mean)
        ELSE RegisterAdd(idx0, md0, fl0, st0, req, mean.val)

register_student ==
    \E req \in RegisterInputs :
        LET r == RegisterResult(index, metadata, files, students, req)
        IN  /\ Len(r.index) <= MaxN
            /\ index' = r.index
            /\ metadata' = r.metadata
            /\ files' = r.files
            /\ students' = r.students
            /\ last' = [op |-> "register_student", args |-> req, ret |-> r.ret]
            /\ UNCHANGED <<metric, faulted, calls, pipelines>>

\* a request to identify a student in which every step goes well: the photo
\* decodes, extract_embedding returns an embedding, the database can be used
IdentifyWell(top_k) ==
    [decodes |-> TRUE, extract |-> Some(<<300, 400>>), top_k |-> top_k,
     database |-> "ok"]

\* the requests to identify a student: all is well, or one step is not
IdentifyInputs ==
    UNION {{IdentifyWell(k),
            [IdentifyWell(k) EXCEPT !.decodes = FALSE],
            [IdentifyWell(k) EXCEPT !.extract = None],
            [IdentifyWell(k) EXCEPT !.extract = Raises],
            [IdentifyWell(k) EXCEPT !.extract = Some(WrongDimEmbedding)],
            [IdentifyWell(k) EXCEPT !.database = "raises"]} : k \in 1..MaxK}

\* identify_student of main.py: the result dict after the first try block
IdentifyDict(idx0, md0, req) ==
    LET failed(error) == {[success |-> FALSE, matches |-> <<>>,
                           best_match |-> None, error |-> error]}
    IN  IF ~req.decodes THEN failed("Endpoint error")
        ELSE IF req.extract = Raises THEN failed("Identification failed")
        ELSE {IF ~r.ok THEN [success |-> FALSE, matches |-> <<>>,
                             best_match |-> None,
                             error |-> "Identification failed"]
              ELSE IF req.extract = None
              THEN [success |-> FALSE, matches |-> <<>>, best_match |-> None,
                    error |-> r.val.error]
              ELSE [success |-> r.val.success, matches |-> r.val.matches,
                    best_match |-> r.val.best_match, error |-> ""] :
                 r \in IdentifyResults(idx0, md0, req.extract, req.top_k)}

\* identify_student of main.py: the response made of the result dict; the
\* student is looked up and the attempt is logged inside try blocks
IdentifyResponse(result, req) ==
    Returned([success |-> result.success,
              student |-> IF result.success /\ req.database = "ok"
                          THEN Some(result.best_match.student_id) ELSE None,
              similarity |-> IF result.best_match # None
                             THEN Some(result.best_match.similarity) ELSE None,
              matches |-> result.matches])

identify_student_endpoint ==
    \E req \in IdentifyInputs :
        \E result \in IdentifyDict(index, metadata, req) :
            /\ last' = [op |-> "identify_student_endpoint", args |-> req,
                        ret |-> IdentifyResponse(result, req)]
            /\ UNCHANGED <<metric, index, metadata, faulted, calls, pipelines,
                           files, students>>

InitEndpoints ==
    /\ metric = "cosine"
    /\ index = <<>>
    /\ metadata = EmptyDict
    /\ faulted = 0
    /\ last = [op |-> "__init__", args |-> <<>>, ret |-> Returned(None)]
    /\ calls = NoCalls
    /\ pipelines = NoPipelines
    /\ files = NoFiles
    /\ students = NoStudents

\* the students table after the scripts that built the index registered
\* every student of it
StudentsOf(idx) ==
    [id \in {idx[p].owner.student_id : p \in 1..Len(idx)} |->
        StudentRow(CHOOSE n \in 0..(Len(idx) - 1) :
                       /\ idx[n + 1].owner.student_id = id
                       /\ \A m \in 0..(Len(idx) - 1) :
                              idx[m + 1].owner.student_id = id => m <= n)]

\* the application started on an index and a table that were built before,
\* with room for one more student
InitRegistered ==
    /\ metric = "cosine"
    /\ \E g \in Enrolled(MaxN - 1) : index = g.index /\ metadata = g.metadata
    /\ faulted = 0
    /\ last = [op |-> "__init__", args |-> <<>>, ret |-> Returned(None)]
    /\ calls = NoCalls
    /\ pipelines = NoPipelines
    /\ files = NoFiles
    /\ students = StudentsOf(index)

NextEndpoints ==
    \/ register_student
    \/ identify_student_endpoint

SpecEndpoints == InitRegistered /\ [][NextEndpoints]_vars

\* ------------------------------------------------------- classify_failure
\* The embeddings given to classify_failure are in units of 1/Micro, so that
\* norms below the near-zero bound of 0.001 can be told apart; similarities
\* and thresholds are in units of 1/Scale.
Micro == 1000000
NormEpsilon == Micro \div 1000
MinFaceSize == 50
DefaultThreshold == 450

\* np.linalg.norm; components whose squares leave the integer range are
\* squared in units of a thousand
Norm(v) ==
    IF \E i \in 1..Len(v) : v[i] > 30000 \/ v[i] < 0 - 30000
    THEN 1000 * Sqrt(SumSeq([i \in 1..Len(v) |->
                                (v[i] \div 1000) * (v[i] \div 1000)]))
    ELSE Sqrt(SumSeq([i \in 1..Len(v) |-> v[i] * v[i]]))

FaceInfos ==
    {None, EmptyDict, [confidence |-> 990]}
    \cup {[box |-> <<10, 20, w, h>>, confidence |-> 990] :
              w \in {49, 50, 120}, h \in {49, 50, 120}}

ClassifyEmbeddings ==
    {None, Some(<<0, 0>>), Some(<<1, 0>>), Some(<<600, 799>>),
     Some(<<600, 800>>), Some(<<6000, 8000>>)}

ClassifySimilarities == {None, Some(0), Some(349), Some(449), Some(450), Some(900)}

\* if face_info and 'box' in face_info
HasBox(face_info) ==
    face_info # None /\ face_info # EmptyDict /\ "box" \in DOMAIN face_info

\* (mutant) no check of the norm
NearZeroNever(embedding) == FALSE

\* the norm of the embedding is below the near-zero bound
NearZero(embedding) == Norm(embedding.value) < NormEpsilon

\* classify_failure: the dict it returns
ClassifyFailureResult(face_detected, face_info, embedding, similarity, threshold) ==
    IF ~face_detected
    THEN [status |-> "no_face",
          reason |-> "No face detected in image.",
          advice |-> "Ensure your face is clearly visible, frontal, and well-lit."]
    ELSE IF HasBox(face_info)
            /\ (face_info.box[3] < MinFaceSize \/ face_info.box[4] < MinFaceSize)
    THEN [status |-> "face_too_small",
          reason |-> "Face detected but too small.",
          advice |-> "Move closer to the camera or use a higher resolution photo."]
    ELSE IF embedding = None
    THEN [status |-> "embedding_failed",
          reason |-> "Embedding generation failed (low-quality face).",
          advice |-> "Image is too blurry or pixelated. Please retake the photo clearly."]
    ELSE IF NearZero(embedding)
    THEN [status |-> "embedding_failed",
          reason |-> "Embedding norm too low - poor quality face.",
          advice |-> "Image quality too poor for identification. Retake with better lighting and focus."]
    ELSE IF similarity # None /\ similarity.value < threshold
    THEN [status |-> "low_similarity",
          reason |-> "Face detected but similarity below threshold.",
          advice |-> "Try a clearer, frontal photo with consistent lighting. Photo may look very different from registration."]
    ELSE [status |-> "unknown",
          reason |-> "Identification failed for unknown reason.",
          advice |-> "Please retake the photo or contact administrator."]

classify_failure ==
    \E face_detected \in BOOLEAN, face_info \in FaceInfos,
       embedding \in ClassifyEmbeddings, similarity \in ClassifySimilarities,
       threshold \in {DefaultThreshold, similarity_threshold} :
        /\ last' = [op |-> "classify_failure",
                    args |-> [face_detected |-> face_detected,
                              face_info |-> face_info,
                              embedding |-> embedding,
                              similarity |-> similarity,
                              threshold |-> threshold],
                    ret |-> Returned(ClassifyFailureResult(
                                face_detected, face_info, embedding,
                                similarity, threshold))]
        /\ UNCHANGED <<metric, index, metadata, faulted, calls, pipelines,
                       files, students>>

NextClassify ==
    \/ classify_failure

SpecClassify == InitEndpoints /\ [][NextClassify]_vars

\* ------------------------------------------------------- identify_face
\* HoldoutTester.identify_face on the index the tester loaded, which is not
\* empty and compares by cosine.  What cv2.imread returns and what the AdaFace
\* model extracts (a normalized vector) are inputs.
SIMILARITY_THRESHOLD == 450
HoldoutK == 5

AdaFaceEmbeddings == {Some(normalize_L2(q)) : q \in Queries}

ToMicro(v) == [i \in 1..Len(v) |-> v[i] * (Micro \div Scale)]

IdentifyFaceFailure(failure_info) ==
    [student_id |-> None, similarity |-> 0, matches |-> <<>>,
     failure_info |-> failure_info]

IdentifyFaceResults(idx0, md0, image, detection, embedding) ==
    IF image = None
    THEN {Returned(IdentifyFaceFailure(
              ClassifyFailureResult(FALSE, None, None, None,
                                    SIMILARITY_THRESHOLD)))}
    ELSE LET found == detect_and_align(image, detection)
             face_detected == found.aligned_face # None
         IN  IF found.aligned_face = None
             THEN {Returned(IdentifyFaceFailure(
                       ClassifyFailureResult(face_detected, found.face_info,
                                             None, None,
                                             SIMILARITY_THRESHOLD)))}
             ELSE IF embedding = None
             THEN {Returned(IdentifyFaceFailure(
                       ClassifyFailureResult(face_detected, found.face_info,
                                             embedding, None,
                                             SIMILARITY_THRESHOLD)))}
             ELSE {IF ~r.ok THEN r
                   ELSE IF r.val = <<>>
                   THEN Returned(IdentifyFaceFailure(
                            ClassifyFailureResult(
                                face_detected, found.face_info,
                                Some(ToMicro(embedding.value)), Some(0),
                                SIMILARITY_THRESHOLD)))
                   ELSE Returned([student_id |-> r.val[1].student_id,
                                  similarity |-> r.val[1].similarity,
                                  matches |-> r.val,
                                  failure_info |-> None]) :
                      r \in SearchWithThresholdResults(
                                idx0, md0, embedding.value,
                                SIMILARITY_THRESHOLD, HoldoutK)}

identify_face ==
    /\ last.op = "__init__"
    /\ \E image \in Images \cup {None}, detection \in Detections,
          embedding \in AdaFaceEmbeddings :
           \E r \in IdentifyFaceResults(index, metadata, image, detection,
                                        embedding) :
               /\ last' = [op |-> "identify_face",
                           args |-> [image |-> image, detection |-> detection,
                                     embedding |-> embedding],
                           ret |-> r]
               /\ UNCHANGED <<metric, index, metadata, faulted, calls, pipelines,
                              files, students>>

InitHoldout ==
    /\ InitEnrolled
    /\ metric = "cosine"
    /\ ntotal > 0

NextHoldout ==
    \/ identify_face

SpecHoldout == InitHoldout /\ [][NextHoldout]_vars

\* ------------------------------------------------------- preprocess_image
\* PreprocessingPipeline.preprocess_image.  Inputs: the image, what the
\* detector finds, the scores estimate_quality gives, the enhance flag, the
\* flags use_realesrgan and use_gfpgan left by the constructor, and what the
\* Real-ESRGAN upsampler and the GFPGAN restorer do when they are called.  The
\* timing entries of the metrics are left out.  The field invoked of the
\* result records which of the two capabilities were called.
quality_threshold == 700
SrThreshold == 64

Qualities == {500, 699, 700, 900}
EnhancedQualities == {800}

EmptyImage == Shape(0, 0)

\* upsampler.enhance(image, outscale): raises, or returns the first element
\* of its pair
UpsamplerOutcomes == {Raises, None, EmptyImage, Shape(224, 224), Shape(100, 80)}

\* restorer.enhance(...): raises, returns something that is no tuple, or the
\* lists of cropped and restored faces
GfpganOutcomes ==
    {Raises, None}
    \cup {[cropped_faces |-> c, restored_faces |-> r] :
              c \in {<<>>, <<Shape(512, 512)>>},
              r \in {<<>>, <<None>>, <<EmptyImage>>, <<Shape(512, 512)>>,
                     <<Shape(1024, 1024)>>}}

Invalid(image) == image = None \/ Size(image) = 0

\* SuperResolutionEnhancer.should_enhance
should_enhance(image, threshold) == Min(image.h, image.w) < threshold

\* SuperResolutionEnhancer.enhance
SrEnhance(image, upsampler) ==
    IF Invalid(image) THEN Raised("ValueError")
    ELSE IF upsampler = Raises THEN Raised("Exception")
    ELSE Returned(upsampler)

\* cv2.resize of something that may be no image
TryResize(image, dsize) ==
    IF Invalid(image) THEN Raised("cv2.error")
    ELSE Returned(Resize(image, dsize))

\* FaceRestorer.restore
Restore(face_image, gfpgan) ==
    IF Invalid(face_image) THEN Raised("ValueError")
    ELSE IF gfpgan = Raises \/ gfpgan = None THEN Returned(face_image)
    ELSE LET result ==
                 IF Len(gfpgan.restored_faces) > 0
                 THEN Some(gfpgan.restored_faces[1])
                 ELSE IF Len(gfpgan.cropped_faces) > 0
                 THEN Some(gfpgan.cropped_faces[1])
                 ELSE None
         IN  IF result = None THEN Returned(face_image)
             ELSE IF Invalid(result.value) THEN Returned(face_image)
             ELSE IF result.value # face_image
             THEN Returned(Resize(result.value,
                                  <<face_image.w, face_image.h>>))
             ELSE Returned(result.value)

\* (mutant) enhancement needed at the threshold too
EnhancementNeededAtThreshold(quality_score) ==
    quality_score <= quality_threshold

\* enhancement_needed = bool(quality_score < quality_threshold)
EnhancementNeeded(quality_score) == quality_score < quality_threshold

InitialMetrics ==
    [face_detected |-> FALSE, face_confidence |-> 0, image_quality |-> 0,
     enhanced |-> FALSE, super_resolved |-> FALSE,
     enhancement_needed |-> FALSE]

\* Step 2: the face, the metrics and the calls made after the
\* super-resolution step
SuperResolutionStep(st, go, use_realesrgan, upsampler) ==
    IF ~(go /\ use_realesrgan /\ should_enhance(st.face, SrThreshold))
    THEN st
    ELSE LET enhanced == SrEnhance(st.face, upsampler)
             resized == IF enhanced.ok
                        THEN TryResize(enhanced.val, output_size)
                        ELSE enhanced
         IN  [face |-> IF ~enhanced.ok THEN st.face
                       ELSE IF ~resized.ok THEN enhanced.val
                       ELSE resized.val,
              metrics |-> IF resized.ok
                          THEN [st.metrics EXCEPT !.super_resolved = TRUE]
                          ELSE st.metrics,
              invoked |-> st.invoked \cup {"super_resolution"}]

\* Step 3: the same after the restoration step
RestorationStep(st, go, use_gfpgan, gfpgan, quality_score, enhanced_quality) ==
    IF ~(go /\ use_gfpgan) THEN st
    ELSE LET restored == Restore(st.face, gfpgan)
         IN  IF restored.ok /\ ~Invalid(restored.val)
             THEN [face |-> restored.val,
                   metrics |->
                       [k \in DOMAIN st.metrics
                              \cup {"quality_improvement", "enhanced_quality"}
                        |-> IF k = "enhanced" THEN TRUE
                            ELSE IF k = "quality_improvement"
                            THEN enhanced_quality - quality_score
                            ELSE IF k = "enhanced_quality"
                            THEN enhanced_quality
                            ELSE st.metrics[k]],
                   invoked |-> st.invoked \cup {"restoration"}]
             ELSE [st EXCEPT !.invoked = @ \cup {"restoration"}]

PreprocessResult(image, detection, req) ==
    LET found == detect_and_align(image, detection)
    IN  IF found.aligned_face = None
        THEN [face |-> None, metrics |-> InitialMetrics, invoked |-> {}]
        ELSE LET enhancement_needed == EnhancementNeeded(req.quality_score)
                 go == req.enhance /\ enhancement_needed
                 st1 == [face |-> found.aligned_face,
                         metrics |->
                             [InitialMetrics EXCEPT
                                 !.face_detected = TRUE,
                                 !.face_confidence = found.face_info.confidence,
                                 !.image_quality = req.quality_score,
                                 !.enhancement_needed = enhancement_needed],
                         invoked |-> {}]
                 st2 == SuperResolutionStep(st1, go, req.use_realesrgan,
                                            req.upsampler)
                 st3 == RestorationStep(st2, go, req.use_gfpgan, req.gfpgan,
                                        req.quality_score,
                                        req.enhanced_quality)
             IN  IF Invalid(st3.face) THEN [st3 EXCEPT !.face = None]
                 ELSE [st3 EXCEPT !.face = Resize(@, output_size)]

PreprocessRequests ==
    [quality_score : Qualities, enhanced_quality : EnhancedQualities,
     enhance : BOOLEAN, use_realesrgan : BOOLEAN, use_gfpgan : BOOLEAN,
     upsampler : UpsamplerOutcomes, gfpgan : GfpganOutcomes]

preprocess_image ==
    /\ last.op = "__init__"
    /\ \E image \in Images, detection \in Detections,
          req \in PreprocessRequests :
           /\ last' = [op |-> "preprocess_image",
                       args |-> [image |-> image, detection |-> detection,
                                 req |-> req],
                       ret |-> Returned(PreprocessResult(image, detection,
                                                         req))]
           /\ UNCHANGED <<metric, index, metadata, faulted, calls, pipelines,
                          files, students>>

NextPreprocess ==
    \/ preprocess_image

SpecPreprocess == InitEndpoints /\ [][NextPreprocess]_vars

\* ------------------------------------------------------- returned matches
\* A caller that keeps the list search_with_threshold returned and assigns to
\* the matches in it.  match_data = self.metadata[str(idx)].copy() is a
\* shallow copy: the match is a new dict, and the dict under its key
\* 'metadata' is the very object the index stores under that key.  The
\* caller's record holds the matches and, for each, the key of the stored
\* record whose 'metadata' dict the match shares (None once the caller has
\* bound another dict to the key).
Client == "client"
Eve == "Eve"

InitMatches ==
    /\ metric = "cosine"
    /\ \E g \in Enrolled(MaxN) : index = g.index /\ metadata = g.metadata
    /\ faulted = 0
    /\ last = [op |-> "__init__", args |-> <<>>, ret |-> Returned(None)]
    /\ calls = [t \in {Client} |-> Idle]
    /\ pipelines = NoPipelines
    /\ files = NoFiles
    /\ students = NoStudents

\* matches = vector_db.search_with_threshold(q, threshold, k)
Client_Search ==
    \E query_embedding \in Queries, k \in 1..MaxK :
        \E r \in SearchWithThresholdResults(index, metadata, query_embedding,
                                            similarity_threshold, k) :
            /\ r.ok
            /\ calls' = [calls EXCEPT ![Client] =
                             [pc |-> "holding", matches |-> r.val,
                              shares |-> [i \in 1..Len(r.val) |->
                                             Some(Str(r.val[i].faiss_index))]]]
            /\ last' = [op |-> "search_with_threshold",
                        args |-> [query_embedding |-> query_embedding,
                                  threshold |-> similarity_threshold, k |-> k],
                        ret |-> r]
            /\ UNCHANGED <<metric, index, metadata, faulted, pipelines, files,
                           students>>

\* matches[i]['student_id'] = 'Eve', or matches[i]['metadata'] = {'name': 'Eve'}:
\* a key of the copy is bound to another object
Client_SetItem ==
    /\ calls[Client].pc = "holding"
    /\ \E i \in 1..Len(calls[Client].matches), key \in {"student_id", "metadata"} :
          /\ calls' = [calls EXCEPT
                 ![Client].matches[i] =
                     IF key = "student_id" THEN [@ EXCEPT !.student_id = Eve]
                     ELSE [@ EXCEPT !.metadata = [name |-> Eve]],
                 ![Client].shares[i] = IF key = "metadata" THEN None ELSE @]
          /\ last' = [op |-> "setitem", args |-> [i |-> i, key |-> <<key>>],
                      ret |-> Returned(None)]
    /\ UNCHANGED <<metric, index, metadata, faulted, pipelines, files,
                   students>>

\* matches[i]['metadata']['name'] = 'Eve': the dict under 'metadata' is
\* changed, for every holder of it
Client_SetMetadataItem ==
    /\ calls[Client].pc = "holding"
    /\ \E i \in 1..Len(calls[Client].matches) :
          LET stored == calls[Client].shares[i]
              held == calls[Client].matches
          IN  /\ calls' = [calls EXCEPT ![Client].matches =
                     [j \in 1..Len(held) |->
                         IF j = i \/ (stored # None
                                      /\ calls[Client].shares[j] = stored)
                         THEN [held[j] EXCEPT
                                  !.metadata = DictSet(@, "name", Eve)]
                         ELSE held[j]]]
              /\ metadata' =
                     IF stored = None THEN metadata
                     ELSE [metadata EXCEPT
                              ![stored.value].metadata = DictSet(@, "name", Eve)]
              /\ last' = [op |-> "setitem",
                          args |-> [i |-> i, key |-> <<"metadata", "name">>],
                          ret |-> Returned(None)]
    /\ UNCHANGED <<metric, index, faulted, pipelines, files, students>>

NextMatches ==
    \/ Client_Search
    \/ Client_SetItem
    \/ Client_SetMetadataItem

SpecMatches == InitMatches /\ [][NextMatches]_vars

\* ------------------------------------------------------- delete_student
\* The delete_student endpoint, on the index and the students table the
\* application started with, and the identifications made before and after.
DeletedIds == {"A", "B", "C"}

\* (mutant) a delete that takes the student's entry out of the index too
DeleteStudentHard(idx0, md0, st0, student_id) ==
    IF student_id \in DOMAIN st0
    THEN LET removed == RemoveEmbeddingResult(idx0, md0,
                                              st0[student_id].faiss_index)
         IN  [index |-> removed.index, metadata |-> removed.metadata,
              students |-> [st0 EXCEPT ![student_id].is_active = FALSE],
              ret |-> Returned([message |-> "Student deleted successfully"])]
    ELSE [index |-> idx0, metadata |-> md0, students |-> st0,
          ret |-> Raised("HTTPException")]

\* delete_student of main.py with StudentDB.delete_student: the row is kept
\* and marked inactive; 404 when there is no such row
DeleteStudentResult(idx0, md0, st0, student_id) ==
    IF student_id \in DOMAIN st0
    THEN [index |-> idx0, metadata |-> md0,
          students |-> [st0 EXCEPT ![student_id].is_active = FALSE],
          ret |-> Returned([message |-> "Student deleted successfully"])]
    ELSE [index |-> idx0, metadata |-> md0, students |-> st0,
          ret |-> Raised("HTTPException")]

delete_student ==
    \E student_id \in DeletedIds :
        LET r == DeleteStudentResult(index, metadata, students, student_id)
        IN  /\ index' = r.index
            /\ metadata' = r.metadata
            /\ students' = r.students
            /\ last' = [op |-> "delete_student",
                        args |-> [student_id |-> student_id], ret |-> r.ret]
            /\ UNCHANGED <<metric, faulted, calls, pipelines, files>>

InitDelete ==
    /\ metric = "cosine"
    /\ \E g \in Enrolled(MaxN) : index = g.index /\ metadata = g.metadata
    /\ faulted = 0
    /\ last = [op |-> "__init__", args |-> <<>>, ret |-> Returned(None)]
    /\ calls = NoCalls
    /\ pipelines = NoPipelines
    /\ files = NoFiles
    /\ students = StudentsOf(index)

NextDelete ==
    \/ delete_student
    \/ IdentifyStudentCall

SpecDelete == InitDelete /\ [][NextDelete]_vars

\* ------------------------------------------------------- properties
IsCall(l, op) == l.op = op
Succeeded(l, op) == l.op = op /\ l.ret.ok

\* C1: after any sequence of add_embedding, add_embeddings_batch,
\* remove_embedding and update_embedding calls on an index that started empty,
\* get_statistics reports total_vectors equal to metadata_entries.
C1_StatisticsAgree ==
    Succeeded(last, "get_statistics") =>
        last.ret.val.total_vectors = last.ret.val.metadata_entries

\* C2: the metadata keys are exactly the decimal strings of 0..n-1, n the
\* number of stored vectors, and the record at key i is the one the vector at
\* position i was added for.
C2_PositionsDense ==
    /\ DOMAIN metadata = Keys(ntotal)
    /\ \A i \in 0..(ntotal - 1) : metadata[Str(i)] = index[i + 1].owner

\* C3: remove_embedding(p) with a valid position p on an index of n >= 1
\* entries leaves exactly n - 1 entries, the one that was at p gone from the
\* vector store and from the metadata.
C3_RemoveLeavesOneFewer ==
    [][(IsCall(last', "remove_embedding")
        /\ last'.args.idx \in 0..(ntotal - 1))
       => LET p == last'.args.idx
          IN  /\ Len(index') = ntotal - 1
              /\ index' = SubSeq(index, 1, p) \o SubSeq(index, p + 2, ntotal)
              /\ Cardinality(DOMAIN metadata') =
                     Cardinality(DOMAIN metadata) - 1]_vars

\* C4: remove_embedding(p) renumbers the remaining entries from 0 in their
\* order: the entry that was at i < p stays at i, the one that was at i > p is
\* at i - 1, each with its own signature, student_id and metadata.
C4_RemoveRenumbers ==
    [][(IsCall(last', "remove_embedding")
        /\ last'.args.idx \in 0..(ntotal - 1)
        /\ ntotal >= 2)
       => LET p == last'.args.idx
          IN  \A i \in (0..(ntotal - 1)) \ {p} :
                  LET j == IF i < p THEN i ELSE i - 1
                  IN  /\ j < Len(index')
                      /\ index'[j + 1].vec = index[i + 1].vec
                      /\ Str(i) \in DOMAIN metadata =>
                            /\ Str(j) \in DOMAIN metadata'
                            /\ metadata'[Str(j)] = metadata[Str(i)]]_vars

\* C5: add_embedding returns the number of entries before the call, appends
\* exactly one vector and exactly one metadata record, keyed by that position
\* and holding the given student_id and metadata (an empty map when none is
\* given); two adds in a row return increasing positions.
C5_AddAppends ==
    [][Succeeded(last', "add_embedding")
       => LET a == last'.args
              pos == last'.ret.val
          IN  /\ pos = ntotal
              /\ Len(index') = ntotal + 1
              /\ SubSeq(index', 1, ntotal) = index
              /\ Str(pos) \notin DOMAIN metadata
              /\ DOMAIN metadata' = DOMAIN metadata \cup {Str(pos)}
              /\ \A key \in DOMAIN metadata : metadata'[key] = metadata[key]
              /\ metadata'[Str(pos)].student_id = a.student_id
              /\ metadata'[Str(pos)].metadata =
                     (IF a.metadata = None THEN EmptyDict ELSE a.metadata)
              /\ Succeeded(last, "add_embedding") => pos > last.ret.val]_vars

C5_Witness ==
    /\ Succeeded(last, "add_embedding")
    /\ last.ret.val = 2
    /\ ntotal = 3
    /\ DOMAIN metadata = Keys(3)
    /\ metadata[Str(2)] = [student_id |-> "B", metadata |-> [name |-> "Bob"]]
    /\ metadata[Str(1)] = [student_id |-> "A", metadata |-> EmptyDict]

\* C6: add_embedding with a signature whose width is not the index's fails
\* with an error and leaves the vector store and the metadata as they were.
C6_WrongWidthRejected ==
    [][(IsCall(last', "add_embedding")
        /\ Len(last'.args.embedding) # embedding_dim)
       => /\ ~last'.ret.ok
          /\ last'.ret.err = "AssertionError"
          /\ index' = index
          /\ metadata' = metadata]_vars

C6_Witness ==
    /\ IsCall(last, "add_embedding")
    /\ Len(last.args.embedding) # embedding_dim
    /\ ~last.ret.ok
    /\ ntotal = 2

\* C7: add_embeddings_batch of N signatures on an index of n entries returns
\* the positions n, n+1, ..., n+N-1 in input order, and the record at position
\* n+i holds student_ids[i] and metadatas[i] (an empty map without metadatas).
C7_BatchPositions ==
    [][Succeeded(last', "add_embeddings_batch")
       => LET ids == last'.args.student_ids
              mds == last'.args.metadatas
              N == Len(ids)
          IN  /\ last'.ret.val = [i \in 1..N |-> ntotal + i - 1]
              /\ Len(index') = ntotal + N
              /\ \A i \in 1..N :
                    /\ Str(ntotal + i - 1) \in DOMAIN metadata'
                    /\ metadata'[Str(ntotal + i - 1)].student_id = ids[i]
                    /\ metadata'[Str(ntotal + i - 1)].metadata =
                           (IF mds = None \/ mds = List(<<>>) THEN EmptyDict
                            ELSE mds.items[i])]_vars

C7_Witness ==
    /\ Succeeded(last, "add_embeddings_batch")
    /\ last.ret.val = <<1, 2>>
    /\ DOMAIN metadata = Keys(3)
    /\ metadata[Str(1)] = [student_id |-> "B", metadata |-> [name |-> "Bob"]]
    /\ metadata[Str(2)] = [student_id |-> "A", metadata |-> EmptyDict]

\* the query as it reaches the index
Normalized(q) == IF metric = "cosine" THEN normalize_L2(q) ELSE q

\* C8: search_with_threshold(q, t, k) never returns a match whose similarity
\* to q (the inner product under cosine, 1/(1+d) under l2) is below t.
C8_NoMatchBelowThreshold ==
    Succeeded(last, "search_with_threshold") =>
        \A i \in 1..Len(last.ret.val) :
            LET m == last.ret.val[i]
                row == index[m.faiss_index + 1].vec
                q == Normalized(last.args.query_embedding)
            IN  /\ m.similarity >= last.args.threshold
                /\ m.similarity =
                       (IF metric = "cosine" THEN InnerProduct(q, row)
                        ELSE (Scale * Scale) \div (Scale + L2Sqr(q, row)))

C8_Witness ==
    /\ Succeeded(last, "search_with_threshold")
    /\ metric = "l2"
    /\ ntotal = 3
    /\ last.args.k = 2
    /\ last.args.threshold = 990
    /\ Len(last.ret.val) = 1

\* C9: search_with_threshold(q, t, k) returns at most k matches, each with
\* the student_id and metadata stored under the position it reports.
C9_MatchesCarryStoredRecord ==
    Succeeded(last, "search_with_threshold") =>
        /\ Len(last.ret.val) <= last.args.k
        /\ \A i \in 1..Len(last.ret.val) :
              LET m == last.ret.val[i]
              IN  /\ Str(m.faiss_index) \in DOMAIN metadata
                  /\ m.student_id = metadata[Str(m.faiss_index)].student_id
                  /\ m.metadata = metadata[Str(m.faiss_index)].metadata

C9_Witness ==
    /\ Succeeded(last, "search_with_threshold")
    /\ last.args.k = 2
    /\ Len(last.ret.val) = 2
    /\ last.ret.val[1].student_id = "B"
    /\ last.ret.val[1].faiss_index = 1
    /\ last.ret.val[2].student_id = "A"

\* C10 (as claimed): search(q, k) returns up to k results in descending order
\* of score under both metrics, equal scores in ascending order of position.
C10_DescendingTiesByPosition ==
    Succeeded(last, "search") =>
        LET d == last.ret.val.distances
            ix == last.ret.val.indices
            found == {i \in 1..Len(ix) : ix[i] >= 0}
        IN  /\ Cardinality(found) <= last.args.k
            /\ \A i, j \in found :
                  i < j => /\ d[i] >= d[j]
                           /\ d[i] = d[j] => ix[i] < ix[j]

\* C10 (amended): search(q, k) returns k slots, best first: the inner
\* products in descending order under cosine, the squared distances in
\* ascending order under l2, distinct positions first and the unfilled slots
\* (position -1) last; the similarities of the matches search_with_threshold
\* returns are in descending order under both metrics.
C10_BestFirst ==
    /\ Succeeded(last, "search") =>
          LET d == last.ret.val.distances
              ix == last.ret.val.indices
              k == last.args.k
              m == IF k < ntotal THEN k ELSE ntotal
          IN  /\ Len(ix) = k /\ Len(d) = k
              /\ \A i, j \in 1..k :
                    i < j => IF metric = "cosine" THEN d[i] >= d[j]
                             ELSE d[i] <= d[j]
              /\ \A i \in 1..k : IF i <= m THEN ix[i] \in 0..(ntotal - 1)
                                 ELSE ix[i] = 0 - 1
              /\ \A i, j \in 1..m : i < j => ix[i] # ix[j]
    /\ Succeeded(last, "search_with_threshold") =>
          \A i, j \in 1..Len(last.ret.val) :
              i < j => last.ret.val[i].similarity >= last.ret.val[j].similarity

C10_Witness ==
    /\ Succeeded(last, "search_with_threshold")
    /\ metric = "l2"
    /\ Len(last.ret.val) = 2
    /\ last.ret.val[1].similarity > last.ret.val[2].similarity
    /\ last.ret.val[1].faiss_index > last.ret.val[2].faiss_index

\* the positions whose stored row is the signature S as add_embedding stores it
Holding(S) ==
    {p \in 0..(ntotal - 1) : index[p + 1].vec = Normalized(S)}

\* C11 (as claimed): under cosine, a search with a signature S that
\* add_embedding inserted at position p, after any other adds (of equal
\* signatures too), returns p as the rank-1 result with similarity 1.
C11_OwnPositionFirst ==
    (Succeeded(last, "search") /\ metric = "cosine") =>
        \A p \in Holding(last.args.query_embedding) :
            /\ last.ret.val.indices[1] = p
            /\ last.ret.val.distances[1] \in
                   (Scale - Scale \div 100)..(Scale + Scale \div 100)

\* C11 (amended): under cosine, a search with a non-zero signature S that
\* add_embedding inserted returns as the rank-1 result a position that holds
\* S (the position of S itself when no other stored signature equals S), with
\* similarity 1 up to rounding.
C11_SelfMatchFirst ==
    (Succeeded(last, "search") /\ metric = "cosine"
     /\ last.args.query_embedding # ZeroEmbedding
     /\ Holding(last.args.query_embedding) # {}) =>
        /\ last.ret.val.indices[1] \in Holding(last.args.query_embedding)
        /\ last.ret.val.distances[1] \in
               (Scale - Scale \div 100)..(Scale + Scale \div 100)

C11_Witness ==
    /\ Succeeded(last, "search")
    /\ metric = "cosine"
    /\ ntotal = 3
    /\ last.args.query_embedding = <<100, 100>>
    /\ Holding(last.args.query_embedding) = {2}
    /\ last.ret.val.indices[1] = 2

\* a request that is over and has made the call op
Done(t, op) == calls[t].pc = "done" /\ calls[t].op = op

C14_CreatedOnce ==
    /\ pipelines.created <= 1
    /\ \A t \in Callers :
          Done(t, "get_pipelines") => calls[t].ret.val = <<Pipelines(1), Pipelines(1)>>

\* a FAISSVectorDB was constructed from the two paths
IsLoad(l) == l.op = "__init__" /\ l.args # <<>>

\* what get_statistics of a loaded object reports
LoadedStatistics(db) ==
    Statistics(db.embedding_dim, db.metric, Len(db.index.xb), db.metadata)

\* C15: constructing a FAISSVectorDB from the path pair a populated index
\* was saved to preserves the entry count, the dimension and the metric that
\* get_statistics reports, the rows, and every record of the metadata map.
C15_SaveLoadRoundTrip ==
    [][(IsLoad(last') /\ ntotal > 0 /\ files = SavedFiles(metric,
                                                           [index |-> index,
                                                            metadata |-> metadata]))
       => LET db == last'.ret.val
          IN  /\ last'.ret.ok
              /\ LoadedStatistics(db) =
                     Statistics(embedding_dim, metric, ntotal, metadata)
              /\ db.metadata = metadata
              /\ db.index.xb = [i \in 1..ntotal |-> index[i].vec]]_vars

\* C16: no FAISSVectorDB is constructed from an index file and a metadata
\* file whose entry counts differ: the construction fails.
C16_MismatchIsFatal ==
    (IsLoad(last) /\ last.ret.ok) =>
        Len(last.ret.val.index.xb) = Cardinality(DOMAIN last.ret.val.metadata)

\* C17: identify_student reports success exactly when the list that
\* search_with_threshold returned is not empty; best_match is the first
\* element of that list and no match has a higher similarity; it is None
\* when the list is empty.
C17_SuccessIffMatches ==
    (Succeeded(last, "identify_student") /\ last.args.embedding # None) =>
        LET res == last.ret.val
        IN  /\ Returned(res.matches) \in
                   SearchWithThresholdResults(index, metadata,
                                              last.args.embedding.value,
                                              similarity_threshold,
                                              last.args.top_k)
            /\ res.success <=> res.matches # <<>>
            /\ res.matches = <<>> => res.best_match = None
            /\ res.matches # <<>> =>
                  /\ res.best_match = res.matches[1]
                  /\ \A i \in 1..Len(res.matches) :
                        res.matches[i].similarity <= res.best_match.similarity

C17_Witness ==
    /\ Succeeded(last, "identify_student")
    /\ last.args.embedding # None
    /\ last.ret.val.success
    /\ Len(last.ret.val.matches) = 2
    /\ last.ret.val.matches[2].similarity < last.ret.val.best_match.similarity
    /\ last.ret.val.best_match.faiss_index = 1

\* C18: verify_student identifies with k = 1 and the configured threshold,
\* and returns verified = true exactly when that identification succeeded
\* and its best match has the claimed student_id.
C18_VerifiedIffBestMatchIsClaimed ==
    (Succeeded(last, "verify_student") /\ last.args.embedding # None) =>
        \E r \in SearchWithThresholdResults(index, metadata,
                                            last.args.embedding.value,
                                            similarity_threshold, 1) :
            /\ r.ok
            /\ Len(r.val) <= 1
            /\ last.ret.val.verified <=>
                  (r.val # <<>> /\ r.val[1].student_id = last.args.student_id)
            /\ r.val # <<>> =>
                  /\ last.ret.val.matched_student_id = r.val[1].student_id
                  /\ last.ret.val.similarity = r.val[1].similarity

C18_Witness ==
    /\ Succeeded(last, "verify_student")
    /\ last.ret.val.verified
    /\ last.args.student_id = "B"
    /\ ntotal = 3
    /\ index[1].owner.student_id = "A"

\* C19: every call of the identify_student and register_student endpoints
\* returns a result, whatever step fails inside it: no exception escapes.
C19_NoExceptionEscapes ==
    (IsCall(last, "register_student")
     \/ IsCall(last, "identify_student_endpoint")) => last.ret.ok

\* the status the ordered decision table gives: the first rule that matches
DecisionTable(a) ==
    LET small == /\ a.face_info # None
                 /\ "box" \in DOMAIN a.face_info
                 /\ \/ a.face_info.box[3] < 50
                    \/ a.face_info.box[4] < 50
    IN  IF ~a.face_detected THEN "no_face"
        ELSE IF small THEN "face_too_small"
        ELSE IF a.embedding = None THEN "embedding_failed"
        ELSE IF SumSeq([i \in 1..Len(a.embedding.value) |->
                           a.embedding.value[i] * a.embedding.value[i]])
                    < (Micro \div 1000) * (Micro \div 1000)
        THEN "embedding_failed"
        ELSE IF a.similarity # None /\ a.similarity.value < a.threshold
        THEN "low_similarity"
        ELSE "unknown"

\* C20: classify_failure gives, for every combination of inputs, the status
\* of the first matching rule of the ordered table (no_face, face_too_small,
\* embedding_failed for an absent embedding, embedding_failed for a near-zero
\* norm, low_similarity, unknown), with a reason and an advice text.
C20_DecisionTable ==
    Succeeded(last, "classify_failure") =>
        /\ last.ret.val.status = DecisionTable(last.args)
        /\ DOMAIN last.ret.val = {"status", "reason", "advice"}
        /\ last.ret.val.reason # ""
        /\ last.ret.val.advice # ""

C20_Witness ==
    /\ Succeeded(last, "classify_failure")
    /\ last.args.face_detected
    /\ last.args.embedding = Some(<<1, 0>>)
    /\ last.args.similarity = Some(0)
    /\ last.ret.val.status = "embedding_failed"

\* C21: in identify_face, an image whose detected box is less than 50 px wide
\* or high is classified face_too_small, not no_face, whatever the confidence
\* of the detection.
C21_SmallBoxIsFaceTooSmall ==
    (/\ Succeeded(last, "identify_face")
     /\ last.args.image # None
     /\ last.args.detection # None
     /\ \/ last.args.detection.box[3] < 50
        \/ last.args.detection.box[4] < 50)
        => /\ last.ret.val.failure_info # None
           /\ last.ret.val.failure_info.status = "face_too_small"

\* the call went beyond detection: a face was detected and aligned
Aligned(l) == Succeeded(l, "preprocess_image") /\ l.ret.val.metrics.face_detected

RestorerFailed(g) ==
    \/ g = Raises
    \/ g = None
    \/ /\ g # Raises
       /\ g # None
       /\ \/ g.restored_faces \in {<<>>, <<None>>, <<EmptyImage>>}
          \/ g.restored_faces[1] # Shape(112, 112)

C24_SmallCropSuperResolved ==
    (/\ Aligned(last)
     /\ last.args.req.enhance
     /\ last.args.req.use_realesrgan
     /\ last.ret.val.metrics.enhancement_needed
     /\ last.args.req.upsampler = Shape(224, 224)
     /\ LET crop == FaceCrop(last.args.image, last.args.detection)
        IN  crop.h < 64 \/ crop.w < 64)
        => /\ "super_resolution" \in last.ret.val.invoked
           /\ last.ret.val.metrics.super_resolved
           /\ last.ret.val.face = Shape(112, 112)

\* the photo yields a signature: it decodes, a face is detected and aligned
\* in it and the recognizer returns an embedding of the index's width
Yields(photo) ==
    /\ photo.image # None
    /\ detect_and_align(photo.image, photo.detection).aligned_face # None
    /\ photo.embedding # Raises
    /\ photo.embedding # None
    /\ Len(photo.embedding.value) = embedding_dim

\* the photo yields nothing and nothing raises: it does not decode, or no
\* face is detected and aligned in it
YieldsNothing(photo) ==
    \/ photo.image = None
    \/ detect_and_align(photo.image, photo.detection).aligned_face = None

\* a step that is a call of register_student for a student not yet in the
\* table, with at least one photo
Enrolls ==
    /\ last'.op = "register_student"
    /\ last' # last
    /\ last'.args.student_id \notin DOMAIN students
    /\ last'.args.photos # <<>>

\* C25: an enrollment in which no photo yields a signature fails with the
\* reason that no face was detected in any photo, and changes nothing: the
\* index, its metadata, the students table and the saved files stay as they
\* were.
C25_NoSignatureFailsCleanly ==
    [][(/\ Enrolls
        /\ \A i \in 1..Len(last'.args.photos) :
               YieldsNothing(last'.args.photos[i]))
          => /\ last'.ret.ok
             /\ ~last'.ret.val.success
             /\ last'.ret.val.message = "No face detected in any of the photos"
             /\ index' = index
             /\ metadata' = metadata
             /\ students' = students
             /\ files' = files]_vars

\* C26: an enrollment with at least one photo that yields a signature
\* succeeds and adds exactly one entry, for the student, whichever of the
\* other photos yield nothing.
C26_FailedPhotosDiscarded ==
    [][(/\ Enrolls
        /\ \E i \in 1..Len(last'.args.photos) : Yields(last'.args.photos[i])
        /\ \A i \in 1..Len(last'.args.photos) :
               \/ Yields(last'.args.photos[i])
               \/ YieldsNothing(last'.args.photos[i])
        /\ last'.args.create_student = "ok"
        /\ last'.args.save = "ok")
          => /\ last'.ret.ok
             /\ last'.ret.val.success
             /\ Len(index') = Len(index) + 1
             /\ index'[Len(index')].owner.student_id = last'.args.student_id
             /\ SubSeq(index', 1, Len(index)) = index]_vars

\* C27: update_embedding(idx, new) with a valid idx on an index of n >= 1
\* entries leaves n entries: the last position holds the new signature with
\* the student_id and metadata of the old entry, and the other entries keep
\* their order.
C27_UpdateIsRemoveThenAdd ==
    [][(/\ IsCall(last', "update_embedding")
        /\ faulted = 0
        /\ last'.args.idx \in 0..(ntotal - 1)
        /\ Len(last'.args.new_embedding) = embedding_dim)
       => LET p == last'.args.idx
          IN  /\ last'.ret.ok
              /\ Len(index') = ntotal
              /\ index'[ntotal].vec = Normalized(last'.args.new_embedding)
              /\ metadata'[Str(ntotal - 1)] = metadata[Str(p)]
              /\ SubSeq(index', 1, ntotal - 1) =
                     SubSeq(index, 1, p) \o SubSeq(index, p + 2, ntotal)]_vars

\* C28: the metadata of a match that search_with_threshold returned is a
\* snapshot: assigning to any field of the match, those inside its metadata
\* map included, leaves the metadata stored in the index unchanged, so a
\* later search returns the stored values.
C28_MatchIsSnapshot ==
    [][IsCall(last', "setitem") => metadata' = metadata]_vars

\* C29: add_embeddings_batch is all-or-nothing: whenever it raises, the
\* vectors and the metadata map are the same as before the call.
C29_BatchAllOrNothing ==
    [][(IsCall(last', "add_embeddings_batch") /\ ~last'.ret.ok)
       => (index' = index /\ metadata' = metadata)]_vars

\* the students marked inactive whose signature v is, once normalised
Deleted(v) ==
    {id \in DOMAIN students :
        /\ ~students[id].is_active
        /\ \E p \in 1..ntotal :
               /\ index[p].owner.student_id = id
               /\ index[p].vec = normalize_L2(v)
               /\ index[p].vec # ZeroEmbedding}

\* C30: delete_student only marks the student's row inactive and leaves the
\* index and its metadata as they are, so identify_student with a deleted
\* student's signature still returns that student as a match.
C30_DeleteKeepsIndexEntry ==
    [][/\ Succeeded(last', "delete_student") =>
            /\ index' = index
            /\ metadata' = metadata
            /\ DOMAIN students' = DOMAIN students
            /\ \A id \in DOMAIN students :
                   students'[id] =
                       IF id = last'.args.student_id
                       THEN [students[id] EXCEPT !.is_active = FALSE]
                       ELSE students[id]
       /\ (/\ IsCall(last', "identify_student")
           /\ last'.args.embedding # None
           /\ Len(last'.args.embedding.value) = embedding_dim)
              => \A id \in Deleted(last'.args.embedding.value) :
                     /\ last'.ret.ok
                     /\ last'.ret.val.success
                     /\ last'.ret.val.best_match.student_id = id]_vars

C30_Witness ==
    /\ Succeeded(last, "identify_student")
    /\ last.args.embedding = Some(<<300, 400>>)
    /\ "A" \in DOMAIN students
    /\ "A" \in Deleted(<<300, 400>>)
    /\ ntotal >= 2
    /\ last.ret.val.success
    /\ last.ret.val.best_match.student_id = "A"

====
